---- MODULE Spec2Model ----
(***************************************************************************)
(* Model of the employee performance report tool (main.py).                *)
(*                                                                         *)
(* Text is modelled as a sequence of code points (" " is <<32>>, "A" is    *)
(* <<65>>), so that str.strip(), float() and the lexicographic order of    *)
(* str are computed and not assumed.  Python's None is the sequence        *)
(* << -1 >>, which is no text.  A float is a record [nan, v]: v is the     *)
(* value when nan is FALSE.  Parsed performances are whole numbers; a      *)
(* rounded average is kept in hundredths (4.67 is v = 467).                *)
(***************************************************************************)
EXTENDS Integers, Sequences, FiniteSets, TLC

VARIABLES
    argv_files,   \* args.files: the paths given after --files
    argv_report,  \* args.report: the name given after --report
    pc,           \* position of the run in main / read_employees
    idx,          \* index in argv_files of the path the for loop is at
    cursor,       \* next data row of the open file that csv.DictReader yields
    handles,      \* indices of the paths whose file object is open
    opened,       \* history: indices of the paths open() was called on, in order
    employees,    \* read_employees: the list `employees`
    err,          \* the exception in flight, or NoError
    result,       \* <<>> or <<ReportResult>> returned by the report function
    exitCode,     \* -1 while running, else the process exit status
    stderr,       \* what was written to standard error
    stdout        \* what print_report printed

vars == <<argv_files, argv_report, pc, idx, cursor, handles, opened,
          employees, err, result, exitCode, stderr, stdout>>

\* Bounds of the model.
MaxFiles == 2
MaxRecs == 3

----------------------------------------------------------------------------
\* Text, None and float values

None == << -1 >>

NaN == [nan |-> TRUE, v |-> 0]

Num(n) == [nan |-> FALSE, v |-> n]

\* Characters str.strip() and float() treat as surrounding whitespace.
IsSpace(c) == c \in {9, 32}

RECURSIVE LStrip(_)
LStrip(s) ==
    IF s # <<>> /\ IsSpace(Head(s)) THEN LStrip(Tail(s)) ELSE s

RECURSIVE RStrip(_)
RStrip(s) ==
    IF s # <<>> /\ IsSpace(s[Len(s)])
    THEN RStrip(SubSeq(s, 1, Len(s) - 1))
    ELSE s

\* str.strip()
Strip(s) == RStrip(LStrip(s))

IsDigit(c) == c \in 48..57

RECURSIVE DigitsValue(_)
DigitsValue(s) ==
    IF s = <<>> THEN 0
    ELSE 10 * DigitsValue(SubSeq(s, 1, Len(s) - 1)) + (s[Len(s)] - 48)

\* float(text) on the texts of the model's alphabet: surrounding whitespace
\* is dropped, then an optional sign and either "nan" or decimal digits.
\* ok = FALSE is ValueError.
ParseFloat(s) ==
    LET t == Strip(s)
        signed == t # <<>> /\ Head(t) \in {43, 45}
        body == IF signed THEN Tail(t) ELSE t
        sign == IF signed /\ Head(t) = 45 THEN -1 ELSE 1
    IN  IF body = <<110, 97, 110>>
        THEN [ok |-> TRUE, val |-> NaN]
        ELSE IF body # <<>> /\ \A i \in 1..Len(body) : IsDigit(body[i])
        THEN [ok |-> TRUE, val |-> Num(sign * DigitsValue(body))]
        ELSE [ok |-> FALSE, val |-> NaN]

\* float + float
FloatAdd(a, b) == IF a.nan \/ b.nan THEN NaN ELSE Num(a.v + b.v)

\* -float
FloatNeg(a) == IF a.nan THEN NaN ELSE Num(-a.v)

\* float < float and float == float (both False when either side is nan)
FloatLt(a, b) == ~a.nan /\ ~b.nan /\ a.v < b.v

FloatEq(a, b) == ~a.nan /\ ~b.nan /\ a.v = b.v

\* str < str: lexicographic by code point, a proper prefix is smaller.
RECURSIVE StrLt(_, _)
StrLt(s, t) ==
    IF t = <<>> THEN FALSE
    ELSE IF s = <<>> THEN TRUE
    ELSE IF Head(s) # Head(t) THEN Head(s) < Head(t)
    ELSE StrLt(Tail(s), Tail(t))

----------------------------------------------------------------------------
\* performance_report

\* Faulty variant of RoundAvg: the average is cut off after 2 decimals.
RoundAvgFloor(total, count) ==
    IF total.nan THEN NaN ELSE Num((total.v * 100) \div count)

\* round(total / count, 2) in hundredths: the nearest hundredth, a tie going
\* to the even one.
RoundAvg(total, count) ==
    IF total.nan THEN NaN
    ELSE LET n == total.v * 100
             f == n \div count
             r == n - f * count
         IN  IF 2 * r < count THEN Num(f)
             ELSE IF 2 * r > count THEN Num(f + 1)
             ELSE IF f % 2 = 0 THEN Num(f) ELSE Num(f + 1)

\* Index of `position` in totals (a dict kept in insertion order), 0 if new.
KeyIndex(totals, position) ==
    IF \E i \in 1..Len(totals) : totals[i].position = position
    THEN CHOOSE i \in 1..Len(totals) : totals[i].position = position
    ELSE 0

\* total, count = totals.get(position, (0.0, 0));
\* totals[position] = (total + performance, count + 1)
AddToTotals(totals, position, performance) ==
    LET i == KeyIndex(totals, position)
    IN  IF i = 0
        THEN Append(totals, [position |-> position,
                             total |-> FloatAdd(Num(0), performance),
                             count |-> 1])
        ELSE [totals EXCEPT ![i] =
                 [position |-> position,
                  total |-> FloatAdd(totals[i].total, performance),
                  count |-> totals[i].count + 1]]

\* Faulty variant of Accumulate: a blank position is not skipped.
AccumulateNoSkip(totals, row) ==
    IF row.position = None \/ row.performance = None THEN totals
    ELSE IF ~ParseFloat(row.performance).ok THEN totals
    ELSE AddToTotals(totals, Strip(row.position), ParseFloat(row.performance).val)

\* One pass of the loop body over `row`.
Accumulate(totals, row) ==
    LET position_raw == row.position
        performance_raw == row.performance
    IN  IF position_raw = None \/ performance_raw = None THEN totals
        ELSE LET position == Strip(position_raw)
             IN  IF position = <<>> THEN totals
                 ELSE IF ~ParseFloat(performance_raw).ok THEN totals
                 ELSE AddToTotals(totals, position, ParseFloat(performance_raw).val)

RECURSIVE Totals(_)
Totals(emps) ==
    IF emps = <<>> THEN <<>>
    ELSE Accumulate(Totals(SubSeq(emps, 1, Len(emps) - 1)), emps[Len(emps)])

\* rows.append([position, round(avg, 2)]) for each item of totals
UnsortedRows(totals) ==
    [i \in 1..Len(totals) |->
        <<totals[i].position, RoundAvg(totals[i].total, totals[i].count)>>]

\* key=lambda row: (-row[1], row[0])
SortKey(row) == <<FloatNeg(row[2]), row[1]>>

\* tuple < tuple: the first differing item decides.
KeyLt(k1, k2) ==
    IF FloatEq(k1[1], k2[1]) THEN StrLt(k1[2], k2[2]) ELSE FloatLt(k1[1], k2[1])

RowLt(r1, r2) == KeyLt(SortKey(r1), SortKey(r2))

\* list.sort on a short list: the leading run is found (and reversed when
\* strictly descending), the rest is inserted by binary search.
RECURSIVE RunEnd(_, _, _)
RunEnd(a, i, descending) ==
    IF i > Len(a) THEN Len(a)
    ELSE IF RowLt(a[i], a[i - 1]) = descending THEN RunEnd(a, i + 1, descending)
    ELSE i - 1

CountRun(a) ==
    IF Len(a) < 2 THEN [n |-> Len(a), descending |-> FALSE]
    ELSE LET d == RowLt(a[2], a[1])
         IN  [n |-> RunEnd(a, 3, d), descending |-> d]

ReversePrefix(a, n) ==
    [i \in 1..Len(a) |-> IF i <= n THEN a[n + 1 - i] ELSE a[i]]

RECURSIVE BinarySearch(_, _, _, _)
BinarySearch(a, pivot, l, r) ==
    IF l >= r THEN l
    ELSE LET p == l + ((r - l) \div 2)
         IN  IF RowLt(pivot, a[p])
             THEN BinarySearch(a, pivot, l, p)
             ELSE BinarySearch(a, pivot, p + 1, r)

RECURSIVE BinarySort(_, _)
BinarySort(a, start) ==
    IF start > Len(a) THEN a
    ELSE LET pivot == a[start]
             l == BinarySearch(a, pivot, 1, start)
             moved == [i \in 1..Len(a) |->
                          IF i < l THEN a[i]
                          ELSE IF i = l THEN pivot
                          ELSE IF i <= start THEN a[i - 1]
                          ELSE a[i]]
         IN  BinarySort(moved, start + 1)

SortRows(rows) ==
    LET run == CountRun(rows)
        a == IF run.descending THEN ReversePrefix(rows, run.n) ELSE rows
    IN  BinarySort(a, run.n + 1)

Headers == <<"position", "performance">>

NoValidDataMsg == "NoValidData"

\* The call as a whole: ok = FALSE is `raise ReportError(...)` of line 81.
performance_report(emps) ==
    LET totals == Totals(emps)
    IN  IF totals = <<>>
        THEN [ok |-> FALSE, msg |-> NoValidDataMsg, value |-> <<>>]
        ELSE [ok |-> TRUE, msg |-> "",
              value |-> <<[headers |-> Headers,
                           rows |-> SortRows(UnsortedRows(totals))]>>]

----------------------------------------------------------------------------
\* The file system the run sees

required_columns == {"position", "performance"}

Row(position, performance) == [position |-> position, performance |-> performance]

\* kind: "file" is a regular UTF-8 csv file, "missing" does not exist,
\* "unreadable" exists but open() is refused (a directory, no permission),
\* "undecodable" opens but its bytes are not UTF-8.
\* header: reader.fieldnames as a set ({} when the file has no first line).
\* rows: what iterating the DictReader yields, a missing cell being None.
File(kind, header, rows) == [kind |-> kind, header |-> header, rows |-> rows]

Paths ==
    {"a.csv", "b.csv", "dirty.csv", "header.csv", "bad.csv", "worse.csv",
     "void.csv", "nope.csv", "dir", "binary.csv"}

Disk ==
    [p \in Paths |->
        CASE p = "a.csv" ->
               File("file", {"name", "position", "performance"},
                    <<Row(<<32, 65>>, <<52>>), Row(<<66>>, <<53>>)>>)
          [] p = "b.csv" ->
               File("file", {"position", "performance", "team"},
                    <<Row(<<65>>, <<53>>)>>)
          [] p = "dirty.csv" ->
               File("file", {"position", "performance"},
                    <<Row(<<65>>, <<120>>), Row(<<66>>, None)>>)
          [] p = "header.csv" ->
               File("file", {"name", "position", "performance"}, <<>>)
          [] p = "bad.csv" ->
               File("file", {"name", "position", "completed_tasks"},
                    <<Row(<<65>>, None)>>)
          [] p = "worse.csv" ->
               File("file", {"name"}, <<Row(None, None)>>)
          [] p = "void.csv" -> File("file", {}, <<>>)
          [] p = "nope.csv" -> File("missing", {}, <<>>)
          [] p = "dir" -> File("unreadable", {}, <<>>)
          [] p = "binary.csv" -> File("undecodable", {}, <<>>)]

----------------------------------------------------------------------------
\* Exceptions

NoError == [kind |-> "none", msg |-> "", path |-> "", missing |-> <<>>]

ReportError(msg, path, missing) ==
    [kind |-> "ReportError", msg |-> msg, path |-> path, missing |-> missing]

\* An exception that is no ReportError.
OtherError(kind, path) ==
    [kind |-> kind, msg |-> kind, path |-> path, missing |-> <<>>]

\* ", ".join(sorted(missing)): "performance" sorts before "position".
SortedMissing(missing) ==
    (IF "performance" \in missing THEN <<"performance">> ELSE <<>>)
    \o (IF "position" \in missing THEN <<"position">> ELSE <<>>)

\* Faulty variant of OpenOutcome: FileNotFoundError is not converted.
OpenOutcomeUncaught(path) ==
    CASE Disk[path].kind = "missing" -> OtherError("FileNotFoundError", path)
      [] Disk[path].kind = "unreadable" -> OtherError("OSError", path)
      [] OTHER -> NoError

\* What open(path) raises inside the try/except (NoError when it returns a
\* file object): FileNotFoundError becomes a ReportError, any other OSError
\* passes through.
OpenOutcome(path) ==
    CASE Disk[path].kind = "missing" -> ReportError("FileNotFound", path, <<>>)
      [] Disk[path].kind = "unreadable" -> OtherError("OSError", path)
      [] OTHER -> NoError

\* What the header checks inside the with block raise.
HeaderOutcome(path) ==
    LET missing == required_columns \ Disk[path].header
    IN  CASE Disk[path].kind = "undecodable" ->
               OtherError("UnicodeDecodeError", path)
          [] Disk[path].header = {} -> ReportError("MissingHeader", path, <<>>)
          [] missing # {} ->
               ReportError("MissingColumns", path, SortedMissing(missing))
          [] OTHER -> NoError

\* Faulty variant of ExitWith: the file stays open.
KeepOpen(hs, i) == hs

\* Leaving the with block, by falling off its end or by an exception,
\* closes the file.
ExitWith(hs, i) == hs \ {i}

\* Faulty variant of AppendRow: the row is put in front.
PrependRow(emps, row) == <<row>> \o emps

\* employees.append(row)
AppendRow(emps, row) == Append(emps, row)

\* Faulty variant of EmptyCheck: an empty list is returned as it is.
EmptyCheckNever(emps) == NoError

\* if not employees: raise ReportError(...)
EmptyCheck(emps) ==
    IF emps = <<>> THEN ReportError("EmptyDataset", "", <<>>) ELSE NoError

REPORTS == {"performance"}

\* A traceback of an exception nobody caught ends the interpreter with 1.
UncaughtExit == 1

\* Faulty variant of ParserErrorExit: the status of a crash.
ParserErrorExitAsFailure == UncaughtExit

\* parser.error(message): the message goes to stderr, the status is 2.
ParserErrorExit == 2

\* print_report: the headers, then each row under its 1-based index.
Table(res) ==
    <<res.headers>> \o [i \in 1..Len(res.rows) |-> <<i>> \o res.rows[i]]

----------------------------------------------------------------------------
\* main

FileLists == UNION {[1..n -> Paths] : n \in 0..MaxFiles}

Init ==
    /\ argv_files \in FileLists
    /\ argv_report \in {"", "performance", "payout"}
    /\ pc = "parse_args"
    /\ idx = 0
    /\ cursor = 0
    /\ handles = {}
    /\ opened = <<>>
    /\ employees = <<>>
    /\ err = NoError
    /\ result = <<>>
    /\ exitCode = -1
    /\ stderr = <<>>
    /\ stdout = <<>>

\* parser.parse_args(argv): --files needs at least one path, --report one of
\* the registered names; otherwise argparse reports a usage error itself.
ParseArgs ==
    /\ pc = "parse_args"
    /\ IF argv_files = <<>> \/ argv_report \notin REPORTS
       THEN /\ pc' = "exit"
            /\ stderr' = <<"usage">>
            /\ exitCode' = ParserErrorExit
            /\ idx' = idx
       ELSE /\ pc' = "open"
            /\ idx' = 1
            /\ UNCHANGED <<stderr, exitCode>>
    /\ UNCHANGED <<argv_files, argv_report, cursor, handles, opened,
                   employees, err, result, stdout>>

\* for path in files: ... open(path, ...)
OpenFile ==
    /\ pc = "open"
    /\ opened' = Append(opened, idx)
    /\ LET e == OpenOutcome(argv_files[idx])
       IN  IF e = NoError
           THEN /\ handles' = handles \cup {idx}
                /\ pc' = "header"
                /\ err' = err
           ELSE /\ err' = e
                /\ pc' = "raised"
                /\ handles' = handles
    /\ UNCHANGED <<argv_files, argv_report, idx, cursor, employees, result,
                   exitCode, stderr, stdout>>

\* reader = csv.DictReader(f) and the two checks on reader.fieldnames
ReadHeader ==
    /\ pc = "header"
    /\ LET e == HeaderOutcome(argv_files[idx])
       IN  IF e = NoError
           THEN /\ pc' = "rows"
                /\ cursor' = 1
                /\ UNCHANGED <<err, handles>>
           ELSE /\ err' = e
                /\ pc' = "raised"
                /\ handles' = ExitWith(handles, idx)
                /\ cursor' = cursor
    /\ UNCHANGED <<argv_files, argv_report, idx, opened, employees, result,
                   exitCode, stderr, stdout>>

\* for row in reader: employees.append(row)
ReadRow ==
    /\ pc = "rows"
    /\ cursor <= Len(Disk[argv_files[idx]].rows)
    /\ employees' = AppendRow(employees, Disk[argv_files[idx]].rows[cursor])
    /\ cursor' = cursor + 1
    /\ UNCHANGED <<argv_files, argv_report, pc, idx, handles, opened, err,
                   result, exitCode, stderr, stdout>>

\* The reader is exhausted: the with block ends and the loop goes on to the
\* next path, or to the check after the loop.
CloseFile ==
    /\ pc = "rows"
    /\ cursor > Len(Disk[argv_files[idx]].rows)
    /\ handles' = ExitWith(handles, idx)
    /\ cursor' = 0
    /\ IF idx < Len(argv_files)
       THEN idx' = idx + 1 /\ pc' = "open"
       ELSE idx' = idx /\ pc' = "after_loop"
    /\ UNCHANGED <<argv_files, argv_report, opened, employees, err, result,
                   exitCode, stderr, stdout>>

\* if not employees: raise ...; return employees
ReturnEmployees ==
    /\ pc = "after_loop"
    /\ LET e == EmptyCheck(employees)
       IN  IF e = NoError
           THEN pc' = "report" /\ err' = err
           ELSE pc' = "raised" /\ err' = e
    /\ UNCHANGED <<argv_files, argv_report, idx, cursor, handles, opened,
                   employees, result, exitCode, stderr, stdout>>

\* report_func = REPORTS[args.report]; return report_func(employees)
GenerateReport ==
    /\ pc = "report"
    /\ LET r == performance_report(employees)
       IN  IF r.ok
           THEN /\ result' = r.value
                /\ pc' = "print"
                /\ err' = err
           ELSE /\ err' = ReportError(r.msg, "", <<>>)
                /\ pc' = "raised"
                /\ result' = result
    /\ UNCHANGED <<argv_files, argv_report, idx, cursor, handles, opened,
                   employees, exitCode, stderr, stdout>>

\* except ReportError as exc: parser.error(str(exc))
HandleReportError ==
    /\ pc = "raised"
    /\ err.kind = "ReportError"
    /\ stderr' = <<err>>
    /\ exitCode' = ParserErrorExit
    /\ pc' = "exit"
    /\ UNCHANGED <<argv_files, argv_report, idx, cursor, handles, opened,
                   employees, err, result, stdout>>

\* Any other exception leaves main: the interpreter prints its traceback.
Uncaught ==
    /\ pc = "raised"
    /\ err.kind # "ReportError"
    /\ stderr' = <<"Traceback", err.kind>>
    /\ exitCode' = UncaughtExit
    /\ pc' = "exit"
    /\ UNCHANGED <<argv_files, argv_report, idx, cursor, handles, opened,
                   employees, err, result, stdout>>

\* print_report(result)
PrintReport ==
    /\ pc = "print"
    /\ stdout' = Table(result[1])
    /\ exitCode' = 0
    /\ pc' = "exit"
    /\ UNCHANGED <<argv_files, argv_report, idx, cursor, handles, opened,
                   employees, err, result, stderr>>

Next ==
    \/ ParseArgs
    \/ OpenFile
    \/ ReadHeader
    \/ ReadRow
    \/ CloseFile
    \/ ReturnEmployees
    \/ GenerateReport
    \/ HandleReportError
    \/ Uncaught
    \/ PrintReport

Spec == Init /\ [][Next]_vars

----------------------------------------------------------------------------
\* performance_report called on its own, as test_performance_report.py does

PositionTexts == {<<65>>, <<32, 65>>, <<66>>, <<65, 66>>}

PerformanceTexts == {<<52>>, <<53>>}

Records ==
    {Row(p, q) : p \in PositionTexts, q \in PerformanceTexts}
    \cup {Row(<<65>>, <<110, 97, 110>>), Row(<<66>>, <<45, 49>>),
          Row(None, <<52>>), Row(<<32>>, <<53>>), Row(<<65>>, <<120>>),
          Row(<<66>>, <<>>), Row(<<65>>, None)}

RecordLists == UNION {[1..n -> Records] : n \in 0..MaxRecs}

InitReport ==
    /\ employees \in RecordLists
    /\ pc = "call"
    /\ argv_files = <<>>
    /\ argv_report = "performance"
    /\ idx = 0
    /\ cursor = 0
    /\ handles = {}
    /\ opened = <<>>
    /\ err = NoError
    /\ result = <<>>
    /\ exitCode = -1
    /\ stderr = <<>>
    /\ stdout = <<>>

CallPerformanceReport ==
    /\ pc = "call"
    /\ LET r == performance_report(employees)
       IN  IF r.ok
           THEN /\ result' = r.value
                /\ pc' = "returned"
                /\ err' = err
           ELSE /\ err' = ReportError(r.msg, "", <<>>)
                /\ pc' = "raised"
                /\ result' = result
    /\ UNCHANGED <<argv_files, argv_report, idx, cursor, handles, opened,
                   employees, exitCode, stderr, stdout>>

NextReport == CallPerformanceReport

SpecReport == InitReport /\ [][NextReport]_vars

----------------------------------------------------------------------------
\* Properties of performance_report (checked under SpecReport)

\* A record that counts: position and performance present, the position not
\* blank, the performance a number.
Valid(r) ==
    /\ r.position # None
    /\ r.performance # None
    /\ Strip(r.position) # <<>>
    /\ ParseFloat(r.performance).ok

ValidAt(emps, position) ==
    {i \in 1..Len(emps) : Valid(emps[i]) /\ Strip(emps[i].position) = position}

ValidPositions(emps) ==
    {Strip(emps[i].position) : i \in {j \in 1..Len(emps) : Valid(emps[j])}}

PerformanceAt(emps, i) == ParseFloat(emps[i].performance).val

RECURSIVE SumAt(_, _)
SumAt(emps, S) ==
    IF S = {} THEN 0
    ELSE LET i == CHOOSE j \in S : TRUE
         IN  PerformanceAt(emps, i).v + SumAt(emps, S \ {i})

Abs(n) == IF n < 0 THEN -n ELSE n

\* `a` (in hundredths) is sum/count rounded to 2 decimal places: no hundredth
\* is nearer to sum/count.  An average over a nan is nan.
IsRoundedAverage(a, emps, S) ==
    IF \E i \in S : PerformanceAt(emps, i).nan
    THEN a.nan
    ELSE /\ ~a.nan
         /\ 2 * Abs(100 * SumAt(emps, S) - a.v * Cardinality(S)) <= Cardinality(S)

\* C1: a returned report has exactly one row for each distinct trimmed
\* position that has a valid record, and the row's value is the sum of the
\* valid performances of that position divided by their number, rounded to
\* 2 decimal places; invalid records count for no position.
C1_Averages ==
    pc = "returned" =>
        LET rows == result[1].rows
        IN  /\ {rows[i][1] : i \in 1..Len(rows)} = ValidPositions(employees)
            /\ Len(rows) = Cardinality(ValidPositions(employees))
            /\ \A i \in 1..Len(rows) :
                  IsRoundedAverage(rows[i][2], employees,
                                   ValidAt(employees, rows[i][1]))

\* An average that had to be rounded up (4.666... to 4.67) next to a record
\* that was skipped or belongs to another position.
C1_Witness ==
    /\ pc = "returned"
    /\ \E i \in 1..Len(result[1].rows) : result[1].rows[i][2] = Num(467)
    /\ \E i \in 1..Len(employees) :
          Strip(employees[i].position) # employees[i].position

\* C2: the rows of a returned report are in descending order of average,
\* rows of equal average in ascending order of position name: of two
\* adjacent rows the first has the strictly greater average, or the same
\* average and the smaller name.
C2_Sorted ==
    pc = "returned" =>
        LET rows == result[1].rows
        IN  \A i \in 1..(Len(rows) - 1) :
               \/ FloatLt(rows[i + 1][2], rows[i][2])
               \/ /\ FloatEq(rows[i][2], rows[i + 1][2])
                  /\ StrLt(rows[i][1], rows[i + 1][1])

\* C8: performance_report raises the NoValidData error exactly when no
\* record is valid; otherwise it returns the headers position, performance
\* and at least one row, every row as long as the headers.
C8_NoValidData ==
    /\ pc = "raised" =>
          /\ err = ReportError(NoValidDataMsg, "", <<>>)
          /\ \A i \in 1..Len(employees) : ~Valid(employees[i])
    /\ pc = "returned" =>
          /\ \E i \in 1..Len(employees) : Valid(employees[i])
          /\ Len(result) = 1
          /\ result[1].headers = <<"position", "performance">>
          /\ Len(result[1].rows) >= 1
          /\ \A i \in 1..Len(result[1].rows) :
                Len(result[1].rows[i]) = Len(result[1].headers)

\* Every record of a non-empty input was skipped.
C8_Witness ==
    /\ pc = "raised"
    /\ Len(employees) >= 2
    /\ \E i \in 1..Len(employees) : employees[i].position = <<32>>

----------------------------------------------------------------------------
\* Properties of read_employees and main (checked under Spec)

\* An existing readable file whose header has the required columns.
WellFormed(path) ==
    /\ Disk[path].kind = "file"
    /\ required_columns \subseteq Disk[path].header

AllWellFormed ==
    /\ argv_files # <<>>
    /\ \A i \in 1..Len(argv_files) : WellFormed(argv_files[i])

DataRows(i) == Disk[argv_files[i]].rows

\* Number of data rows of the first n paths together.
RECURSIVE RowsBefore(_)
RowsBefore(n) == IF n = 0 THEN 0 ELSE RowsBefore(n - 1) + Len(DataRows(n))

TotalRows == RowsBefore(Len(argv_files))

\* The run got past parse_args: read_employees was called.
Called == argv_files # <<>> /\ argv_report \in REPORTS

\* read_employees has returned its list.
Returned == pc \in {"report", "print"} \/ result # <<>>

IngestionErrors ==
    {"FileNotFound", "MissingHeader", "MissingColumns", "EmptyDataset"}

\* C3: for well-formed files that together hold a data row, read_employees
\* does not fail, and the list it returns has as many items as the files have
\* data rows, in file-then-row order: row j of path i is the item at position
\* (rows of the paths before i) + j.
C3_FileThenRow ==
    (AllWellFormed /\ TotalRows >= 1) =>
        /\ err.msg \notin IngestionErrors
        /\ err.kind \in {"none", "ReportError"}
        /\ pc = "report" =>
              /\ Len(employees) = TotalRows
              /\ \A i \in 1..Len(argv_files) :
                    \A j \in 1..Len(DataRows(i)) :
                       employees[RowsBefore(i - 1) + j] = DataRows(i)[j]

\* Two files with data rows were read, the first with more than one row.
C3_Witness ==
    /\ pc = "report"
    /\ Len(argv_files) = 2
    /\ Len(DataRows(1)) = 2
    /\ Len(DataRows(2)) >= 1

\* A readable file whose header lacks position or performance.
LacksColumns(path) ==
    /\ Disk[path].kind = "file"
    /\ ~(required_columns \subseteq Disk[path].header)

\* C4: when some file of the list has a header without position or
\* performance, read_employees never returns records, and the failure of the
\* run is a ReportError, wherever that file stands in the list.
C4_BadHeaderFails ==
    (\E i \in 1..Len(argv_files) : LacksColumns(argv_files[i])) =>
        /\ ~Returned
        /\ stdout = <<>>
        /\ err # NoError => err.kind = "ReportError"
        /\ (Called /\ pc = "exit") => err.kind = "ReportError"

\* C5: when one path of the list does not exist and every other path is a
\* well-formed file, read_employees never returns records and the only
\* failure it can end with is FileNotFound naming the nonexistent path.
C5_FileNotFound ==
    \A i \in 1..Len(argv_files) :
        (/\ Disk[argv_files[i]].kind = "missing"
         /\ \A k \in 1..Len(argv_files) : k # i => WellFormed(argv_files[k]))
        =>  /\ ~Returned
            /\ err # NoError =>
                  err = ReportError("FileNotFound", argv_files[i], <<>>)
            /\ (Called /\ pc \in {"raised", "exit"}) => err # NoError

\* The nonexistent path came second, after a file whose rows were collected.
C5_Witness ==
    /\ err.msg = "FileNotFound"
    /\ idx = 2
    /\ employees # <<>>

\* C6: a path that is no existing readable file (nonexistent, a directory,
\* permission denied) fails as the FileNotFound ReportError, and every
\* failure that leaves read_employees is a ReportError.
C6_UnifiedErrors ==
    /\ err # NoError => err.kind = "ReportError"
    /\ (pc = "raised" /\ Disk[argv_files[idx]].kind \in {"missing", "unreadable"})
          => err = ReportError("FileNotFound", argv_files[idx], <<>>)

\* C7: when every path is a well-formed file, read_employees fails with
\* EmptyDataset exactly when the files together hold no data row; the check
\* is made once, after the last file was read.
C7_EmptyDataset ==
    AllWellFormed =>
        /\ TotalRows = 0 =>
              /\ ~Returned
              /\ err # NoError => err = ReportError("EmptyDataset", "", <<>>)
              /\ (Called /\ pc \in {"raised", "exit"}) => err # NoError
        /\ TotalRows >= 1 => err.msg # "EmptyDataset"
        /\ err.msg = "EmptyDataset" =>
              /\ Len(opened) = Len(argv_files)
              /\ handles = {}

\* Two header-only files were read before the failure.
C7_Witness ==
    /\ err.msg = "EmptyDataset"
    /\ Len(argv_files) = 2
    /\ pc = "raised"

\* The run ended in argparse's usage error.
UsageError == pc = "exit" /\ ~Called

\* C9: a run that fails with a ReportError ends with exit code 2, the code
\* of a usage error, with the error's message on standard error and no
\* report printed; a report is printed only once generate_report has
\* returned a result.
C9_ExitCode ==
    /\ (pc = "exit" /\ err.kind = "ReportError") =>
          /\ exitCode = 2
          /\ stderr = <<err>>
          /\ stdout = <<>>
    /\ UsageError => exitCode = 2
    /\ stdout # <<>> => (result # <<>> /\ err = NoError)
    /\ pc = "print" => (result # <<>> /\ err = NoError)

\* Aggregation failed after ingestion had returned records.
C9_Witness ==
    /\ pc = "exit"
    /\ err.msg = NoValidDataMsg
    /\ employees # <<>>

\* The paths open() was called on are the first paths of the list, in order.
OpenedInOrder == opened = [i \in 1..Len(opened) |-> i]

C10_State ==
    /\ Cardinality(handles) <= 1
    /\ handles \subseteq {idx}
    /\ OpenedInOrder
    /\ pc = "open" => handles = {}
    /\ pc \in {"after_loop", "report", "print", "raised", "exit"} => handles = {}

C10_Step ==
    /\ opened' # opened => handles = {}
    /\ err # NoError => opened' = opened

\* C10: files are opened one at a time in the order given: at most one
\* handle is open, it is released before the next open(), none is open once
\* read_employees has returned or failed, and after a failure no further
\* file is opened.
C10_Handles == [](C10_State) /\ [][C10_Step]_vars

\* The second file failed while it was open, after the first was read.
C10_Witness ==
    /\ pc = "raised"
    /\ err.msg \in {"MissingColumns", "UnicodeDecodeError"}
    /\ idx = 2
    /\ Len(opened) = 2
    /\ employees # <<>>

====
